---- MODULE Spec2Model ----
(***************************************************************************)
(* A model of montecarlo-ip-searcher: the top-N collection of the search   *)
(* package, the prefix algebra of internal/cidr, the probe client of       *)
(* internal/probe and the output stage of cmd/mcis.                        *)
(*                                                                         *)
(* Four specifications share the variables; each one moves only its own    *)
(* component and leaves the others at their initial values:                *)
(*   SpecTopN   topN.Consider / Best / Snapshot under the mutex            *)
(*   SpecCidr   SplitPrefix and RandomAddr                                 *)
(*   SpecProbe  Prober.ProbeHTTPTrace                                      *)
(*   SpecMain   main: search, output file, output switch, exit code        *)
(***************************************************************************)
EXTENDS Integers, Sequences, FiniteSets, TLC

VARIABLES
    \* ---- topN (search package)
    n,          \* topN.n
    buf,        \* topN.buf
    mu,         \* topN.mu: the worker holding it, or NoWorker
    pc,         \* per worker: "idle" or "locked" (inside a method, mutex held)
    op,         \* per worker: the method it is in
    ret,        \* the value the last Snapshot() or Best() returned
    seen,       \* history: per ip, the minimum score ever passed to Consider
    last,       \* history (SpecTopSeq): the argument of the last Consider
    hit,        \* history (SpecTopSeq): what the last Consider found for its ip
    \* ---- cidr
    cOp,        \* the last cidr operation: "none", "split" or "random"
    cP,         \* its prefix argument
    cStep,      \* SplitPrefix's step argument (a Go int, 64 bits)
    cOut,       \* SplitPrefix's returned slice
    cErr,       \* SplitPrefix returned a non-nil error
    cAddr,      \* RandomAddr's returned address
    \* ---- probe
    res,        \* the Result ProbeHTTPTrace returned
    probed,     \* how that call went: "no" (no call), "build_err", "timeout",
                \* "do_err" or "response"
    \* ---- main
    mpc,        \* main's position
    outFmt,     \* -out
    outPath,    \* -out-file
    runRes,     \* what search.Run returned
    dispatched, \* probes dispatched by the search
    fileMade,   \* os.Create(outPath) was called and succeeded
    written,    \* rows written to the output
    writeErr,   \* a write to the output failed
    stderrMsg,  \* an "error:" line was printed to stderr
    exitCode    \* the process's exit code, or NoExit while it runs

topVars   == <<n, buf, mu, pc, op, ret, seen, last, hit>>
cidrVars  == <<cOp, cP, cStep, cOut, cErr, cAddr>>
probeVars == <<res, probed>>
mainVars  == <<mpc, outFmt, outPath, runRes, dispatched, fileMade, written,
               writeErr, stderrMsg, exitCode>>
vars      == <<topVars, cidrVars, probeVars, mainVars>>

(***************************************************************************)
(* Bounds of the model.                                                    *)
(***************************************************************************)
MaxN       == 2     \* newTopN(n) is built with n in 0..MaxN
NumIPs     == 3     \* distinct addresses passed to Consider
MaxScore   == 1     \* scores are 0..MaxScore
NumWorkers == 2     \* goroutines calling into the topN

Workers  == 1..NumWorkers
NoWorker == 0
IPs      == 1..NumIPs
NoIP     == 0       \* netip.Addr{}, the zero address
Scores   == 0..MaxScore
\* The fields of a TopResult other than IP and ScoreMS, as one payload value:
\* two results for the same ip with the same score can still differ.
Payloads == {0, 1}
Results  == [ip : IPs, score : Scores, tag : Payloads]
NoResult == [ip |-> NoIP, score |-> 0, tag |-> 0]
NoScore  == MaxScore + 10
NoRet    == [kind |-> "none", rows |-> <<>>]

(***************************************************************************)
(* topN                                                                    *)
(***************************************************************************)
RECURSIVE InsertStable(_, _)
\* One step of a stable sort: x goes after every element whose score is not
\* greater than its own.
InsertStable(s, x) ==
    IF s = <<>> THEN <<x>>
    ELSE IF x.score < s[Len(s)].score
         THEN Append(InsertStable(SubSeq(s, 1, Len(s) - 1), x), s[Len(s)])
         ELSE Append(s, x)

RECURSIVE sortLocked(_)
\* sort.SliceStable(t.buf, less by ScoreMS)
sortLocked(s) ==
    IF s = <<>> THEN <<>>
    ELSE InsertStable(sortLocked(SubSeq(s, 1, Len(s) - 1)), s[Len(s)])

\* A trim that keeps one entry too many.
trimLockedMut(s, k) == IF Len(s) > k + 1 THEN SubSeq(s, 1, k + 1) ELSE s

\* if len(t.buf) > t.n { t.buf = t.buf[:t.n] }
trimLocked(s, k) == IF Len(s) > k THEN SubSeq(s, 1, k) ELSE s

\* The index of the first entry of s with address ip, 0 when there is none
\* (the for-range loop of Consider returns at the first match).
FindIP(s, ip) ==
    IF \E i \in 1..Len(s) : s[i].ip = ip
    THEN CHOOSE i \in 1..Len(s) :
            /\ s[i].ip = ip
            /\ \A j \in 1..(i - 1) : s[j].ip # ip
    ELSE 0

\* Consider that replaces the entry also on an equal score.
ConsiderBufLe(s, k, r) ==
    IF k <= 0 THEN s
    ELSE LET i == FindIP(s, r.ip) IN
         IF i # 0
         THEN trimLocked(sortLocked(IF r.score <= s[i].score
                                    THEN [s EXCEPT ![i] = r] ELSE s), k)
         ELSE trimLocked(sortLocked(Append(s, r)), k)

\* Consider without the dedup loop: always appends.
ConsiderBufNoDedup(s, k, r) ==
    IF k <= 0 THEN s ELSE trimLocked(sortLocked(Append(s, r)), k)

\* Consider that keeps the worse score of an ip.
ConsiderBufWorse(s, k, r) ==
    IF k <= 0 THEN s
    ELSE LET i == FindIP(s, r.ip) IN
         IF i # 0
         THEN trimLocked(sortLocked(IF r.score > s[i].score
                                    THEN [s EXCEPT ![i] = r] ELSE s), k)
         ELSE trimLocked(sortLocked(Append(s, r)), k)

\* The body of topN.Consider: the new t.buf.
ConsiderBuf(s, k, r) ==
    IF k <= 0 THEN s
    ELSE LET i == FindIP(s, r.ip) IN
         IF i # 0
         THEN trimLocked(sortLocked(IF r.score < s[i].score
                                    THEN [s EXCEPT ![i] = r] ELSE s), k)
         ELSE trimLocked(sortLocked(Append(s, r)), k)

\* The body of topN.Best.
BestOf(s) == IF Len(s) = 0 THEN NoResult ELSE s[1]

Min2(a, b) == IF a < b THEN a ELSE b

\* t.mu.Lock() on entry to Consider, Best or Snapshot: the caller blocks until
\* the mutex is free.  The value a finished call returned stays observable
\* until the next call enters.
Lock(w, k) ==
    /\ pc[w] = "idle" /\ mu = NoWorker
    /\ mu' = w
    /\ pc' = [pc EXCEPT ![w] = "locked"]
    /\ op' = [op EXCEPT ![w] = k]
    /\ ret' = NoRet
    /\ UNCHANGED <<n, buf, seen, last, hit>>
    /\ UNCHANGED <<cidrVars, probeVars, mainVars>>

\* deferred t.mu.Unlock()
Unlock(w) ==
    /\ mu' = NoWorker
    /\ pc' = [pc EXCEPT ![w] = "idle"]
    /\ op' = [op EXCEPT ![w] = "none"]

\* Consider(r): the body, run with the mutex held, and the unlock.  r is the
\* caller's argument, passed by value.
Consider(w, r) ==
    /\ pc[w] = "locked" /\ mu = w /\ op[w] = "consider"
    /\ buf' = ConsiderBuf(buf, n, r)
    /\ seen' = [seen EXCEPT ![r.ip] = Min2(@, r.score)]
    /\ Unlock(w)
    /\ UNCHANGED <<n, ret, last, hit>>
    /\ UNCHANGED <<cidrVars, probeVars, mainVars>>

\* Consider(r) from a single caller: lock, body and unlock in one step, with
\* the call recorded in last and hit.
ConsiderSeq(r) ==
    /\ mu = NoWorker
    /\ buf' = ConsiderBuf(buf, n, r)
    /\ seen' = [seen EXCEPT ![r.ip] = Min2(@, r.score)]
    /\ last' = r
    /\ hit' = LET i == FindIP(buf, r.ip) IN
              IF n <= 0 THEN "off"
              ELSE IF i = 0 THEN "new"
              ELSE IF r.score < buf[i].score THEN "better"
              ELSE "notbetter"
    /\ UNCHANGED <<n, mu, pc, op, ret>>
    /\ UNCHANGED <<cidrVars, probeVars, mainVars>>

\* Snapshot(): the copy and the unlock
Snapshot(w) ==
    /\ pc[w] = "locked" /\ mu = w /\ op[w] = "snapshot"
    /\ ret' = [kind |-> "snapshot", rows |-> buf]
    /\ Unlock(w)
    /\ UNCHANGED <<n, buf, seen, last, hit>>
    /\ UNCHANGED <<cidrVars, probeVars, mainVars>>

\* Best(): the body and the unlock
Best(w) ==
    /\ pc[w] = "locked" /\ mu = w /\ op[w] = "best"
    /\ ret' = [kind |-> "best", rows |-> <<BestOf(buf)>>]
    /\ Unlock(w)
    /\ UNCHANGED <<n, buf, seen, last, hit>>
    /\ UNCHANGED <<cidrVars, probeVars, mainVars>>

NoExit == -1        \* the process is still running

\* The other components at rest.
CidrIdle ==
    /\ cOp = "none" /\ cP = <<>> /\ cStep = <<>> /\ cOut = <<>>
    /\ cErr = FALSE /\ cAddr = <<>>
ProbeIdle == res = <<>> /\ probed = "no"
MainIdle ==
    /\ mpc = "off" /\ outFmt = "" /\ outPath = "" /\ runRes = <<>>
    /\ dispatched = 0 /\ fileMade = FALSE /\ written = 0
    /\ writeErr = FALSE /\ stderrMsg = FALSE /\ exitCode = NoExit
TopIdle ==
    /\ n = 0 /\ buf = <<>> /\ mu = NoWorker
    /\ pc = [w \in Workers |-> "idle"]
    /\ op = [w \in Workers |-> "none"]
    /\ ret = NoRet
    /\ seen = [i \in IPs |-> NoScore]
    /\ last = NoResult /\ hit = "none"

\* newTopN(n): an empty buffer, the mutex free, no worker inside.
InitTopN ==
    /\ n \in 0..MaxN
    /\ buf = <<>> /\ mu = NoWorker
    /\ pc = [w \in Workers |-> "idle"]
    /\ op = [w \in Workers |-> "none"]
    /\ ret = NoRet
    /\ seen = [i \in IPs |-> NoScore]
    /\ last = NoResult /\ hit = "none"
    /\ CidrIdle /\ ProbeIdle /\ MainIdle

NextTopN ==
    \/ \E w \in Workers, k \in {"consider", "snapshot", "best"} : Lock(w, k)
    \/ \E w \in Workers, r \in Results : Consider(w, r)
    \/ \E w \in Workers : Snapshot(w)
    \/ \E w \in Workers : Best(w)

SpecTopN == InitTopN /\ [][NextTopN]_vars

\* One caller, Consider only.
NextTopSeq == \E r \in Results : ConsiderSeq(r)

SpecTopSeq == InitTopN /\ [][NextTopSeq]_vars

(***************************************************************************)
(* Claims about the topN                                                   *)
(***************************************************************************)
SeenIPs == {i \in IPs : seen[i] # NoScore}

\* Sorted ascending by score, at most n entries, no address twice.
TopOK(s) ==
    /\ \A i \in 1..(Len(s) - 1) : s[i].score <= s[i + 1].score
    /\ Len(s) <= n
    /\ \A i, j \in 1..Len(s) : i # j => s[i].ip # s[j].ip

\* C1: whatever Consider calls the workers have made, in whatever order the
\* mutex let them in, the collection and every slice Snapshot() returns are
\* sorted ascending by score, hold at most n entries and hold no ip twice.
C1_SnapshotSortedBoundedDistinct ==
    /\ TopOK(buf)
    /\ ret.kind = "snapshot" => TopOK(ret.rows)

\* A full snapshot of two entries with different scores, taken after some
\* considered ip was trimmed out.
C1_Witness ==
    /\ ret.kind = "snapshot" /\ n >= 2 /\ Len(ret.rows) = n
    /\ ret.rows[1].score < ret.rows[n].score
    /\ \E i \in SeenIPs : FindIP(ret.rows, i) = 0

RECURSIVE Ascending(_, _)
\* The values f[i], i in S, as an ascending sequence.
Ascending(f, S) ==
    IF S = {} THEN <<>>
    ELSE LET m == CHOOSE i \in S : \A j \in S : f[i] <= f[j]
         IN  <<f[m]>> \o Ascending(f, S \ {m})

\* C10: with n >= 1, the scores held are the min(n, k) smallest of the per-ip
\* minimum scores ever considered (k ips considered), and Best() returns the
\* minimum score ever considered.
C10_EvictionKeepsWinners ==
    n >= 1 =>
        /\ Ascending([i \in 1..Len(buf) |-> buf[i].score], 1..Len(buf))
             = SubSeq(Ascending(seen, SeenIPs), 1, Min2(n, Cardinality(SeenIPs)))
        /\ (ret.kind = "best" /\ SeenIPs # {}) =>
               \A i \in SeenIPs : ret.rows[1].score <= seen[i]

\* Best() returned from a full collection while a considered ip is trimmed
\* out and another ip holds a score that is not its first.
C10_Witness ==
    /\ n >= 1 /\ Len(buf) = n /\ ret.kind = "best"
    /\ \E i \in SeenIPs : FindIP(buf, i) = 0 /\ seen[i] > ret.rows[1].score

Range(s) == {s[i] : i \in 1..Len(s)}

\* C4: a Consider(r) that finds r.ip in the collection replaces that entry by
\* r iff r's score is lower, and otherwise leaves the collection as it was;
\* and while every call so far carried one ip (n >= 1), the collection is the
\* single entry with the lowest score considered.
C4_ReplaceIffBetter ==
    /\ [][LET r == last'
              i == FindIP(buf, r.ip)
          IN  (n >= 1 /\ i # 0) =>
                 IF r.score < buf[i].score
                 THEN /\ Len(buf') = Len(buf)
                      /\ Range(buf') = (Range(buf) \ {buf[i]}) \cup {r}
                 ELSE buf' = buf]_vars
    /\ []((n >= 1 /\ Cardinality(SeenIPs) = 1) =>
             /\ Len(buf) = 1
             /\ buf[1].ip \in SeenIPs
             /\ buf[1].score = seen[buf[1].ip])

\* The last call replaced the one entry of a one-ip history by a better one.
C4_Witness ==
    /\ hit = "better" /\ n >= 1 /\ Cardinality(SeenIPs) = 1
    /\ buf = <<last>>

\* C5: in the state a Consider(r) leaves, a second Consider(r) changes
\* nothing: same entries, same order.
C5_ConsiderIdempotent ==
    last # NoResult => ConsiderBuf(buf, n, last) = buf

\* The last call's result was trimmed out of a full collection.
C5_Witness ==
    /\ last # NoResult /\ n >= 1 /\ Len(buf) = n
    /\ FindIP(buf, last.ip) = 0

(***************************************************************************)
(* Prefix algebra (internal/cidr)                                          *)
(*                                                                         *)
(* A netip.Addr is its byte array: 4 bytes (As4) for IPv4, 16 (As16) for   *)
(* IPv6.  Machine words wider than TLC's integers (uint32, uint64, Go's    *)
(* 64-bit int) are bit vectors, most significant bit first, with the       *)
(* wrap-around arithmetic of their width.                                  *)
(***************************************************************************)
MaxStep == 3        \* small steps 1..MaxStep are tried in full
IntBits == 64       \* width of Go's int on the 64-bit targets

\* A sequence built element by element, as a tuple.
Tup(f, w) == SubSeq(f, 1, w)

Zeros(k) == Tup([i \in 1..k |-> 0], k)
Ones(k)  == Tup([i \in 1..k |-> 1], k)

\* The low w bits of x, 0 <= x < 2^31 (a conversion to a w-bit unsigned word
\* truncates).
NatToBits(x, w) ==
    Tup([i \in 1..w |-> IF w - i >= 31 THEN 0 ELSE (x \div (2 ^ (w - i))) % 2], w)

RECURSIVE BitsToNat(_)
BitsToNat(v) ==
    IF v = <<>> THEN 0
    ELSE 2 * BitsToNat(SubSeq(v, 1, Len(v) - 1)) + v[Len(v)]

\* binary.BigEndian.Uint32(a[:]), and the bits of a [16]byte
BytesToBits(bs) ==
    Tup([i \in 1..(8 * Len(bs)) |->
            (bs[((i - 1) \div 8) + 1] \div (2 ^ (7 - ((i - 1) % 8)))) % 2],
        8 * Len(bs))

\* binary.BigEndian.PutUint32(out[:], v)
BitsToBytes(v) ==
    Tup([j \in 1..(Len(v) \div 8) |-> BitsToNat(SubSeq(v, 8 * (j - 1) + 1, 8 * j))],
        Len(v) \div 8)

OrBits(a, b)  == Tup([i \in 1..Len(a) |-> IF a[i] = 1 \/ b[i] = 1 THEN 1 ELSE 0], Len(a))
AndBits(a, b) == Tup([i \in 1..Len(a) |-> IF a[i] = 1 /\ b[i] = 1 THEN 1 ELSE 0], Len(a))

RECURSIVE ByteAndFrom(_, _, _)
\* The bits k..7 of x & y, for bytes x and y.
ByteAndFrom(x, y, k) ==
    IF k > 7 THEN 0
    ELSE ((x \div (2 ^ k)) % 2) * ((y \div (2 ^ k)) % 2) * (2 ^ k)
            + ByteAndFrom(x, y, k + 1)
ByteAnd(x, y) == ByteAndFrom(x, y, 0)
ByteOr(x, y)  == x + y - ByteAnd(x, y)

\* v << k in a word of Len(v) bits: the bits shifted out are lost, a shift by
\* the width or more gives 0.
ShlBits(v, k) ==
    IF k >= Len(v) THEN Zeros(Len(v))
    ELSE SubSeq(v, k + 1, Len(v)) \o Zeros(k)

\* A word as 16-bit limbs, most significant first, and back.
Limbs(v) ==
    Tup([j \in 1..(Len(v) \div 16) |-> BitsToNat(SubSeq(v, 16 * (j - 1) + 1, 16 * j))],
        Len(v) \div 16)
Unlimbs(l) ==
    Tup([i \in 1..(16 * Len(l)) |->
            (l[((i - 1) \div 16) + 1] \div (2 ^ (15 - ((i - 1) % 16)))) % 2],
        16 * Len(l))

RECURSIVE AddCarry(_, _, _)
\* Limb-wise addition with carry c into the least significant limb; the carry
\* out of the most significant limb is dropped.
AddCarry(x, y, c) ==
    IF Len(x) = 0 THEN <<>>
    ELSE LET k == Len(x)
             t == x[k] + y[k] + c
         IN  Append(AddCarry(SubSeq(x, 1, k - 1), SubSeq(y, 1, k - 1), t \div 65536),
                    t % 65536)

\* a + b in a word of Len(a) bits, wrapping around
AddBits(a, b) == Unlimbs(AddCarry(Limbs(a), Limbs(b), 0))

\* ---- Go's int: IntBits bits, two's complement
IntOf(k) ==
    IF k >= 0 THEN NatToBits(k, IntBits)
    ELSE LET m == NatToBits(-k, IntBits)
         IN  AddBits(Tup([i \in 1..IntBits |-> 1 - m[i]], IntBits),
                     NatToBits(1, IntBits))
MaxInt     == <<0>> \o Ones(IntBits - 1)
IntNeg(a)  == a[1] = 1
IntLe0(a)  == IntNeg(a) \/ a = Zeros(IntBits)
IntAdd(a, b) == AddBits(a, b)
\* a fits TLC's integers (0 <= a < 2^30)
IntSmall(a) == \A i \in 1..(IntBits - 30) : a[i] = 0
IntVal(a)   == BitsToNat(SubSeq(a, IntBits - 29, IntBits))
\* a > b, signed
IntGt(a, b) ==
    IF a[1] # b[1] THEN b[1] = 1
    ELSE \E i \in 1..IntBits :
            /\ a[i] = 1 /\ b[i] = 0
            /\ \A j \in 1..(i - 1) : a[j] = b[j]
\* 1 << k for an int shift count k > 0
IntShl1(k) ==
    IF IntSmall(k) THEN ShlBits(IntOf(1), IntVal(k)) ELSE Zeros(IntBits)

\* ---- netip
Is4(a) == Len(a) = 4
FamilyBits(a) == 8 * Len(a)

\* netip.Prefix.Masked(): the host bits zeroed
Masked(p) ==
    [addr |-> Tup([i \in 1..Len(p.addr) |->
                     LET keep == p.bits - 8 * (i - 1) IN
                     IF keep >= 8 THEN p.addr[i]
                     ELSE IF keep <= 0 THEN 0
                     ELSE (p.addr[i] \div (2 ^ (8 - keep))) * (2 ^ (8 - keep))],
                  Len(p.addr)),
     bits |-> p.bits]

\* ---- SplitPrefix
\* setBitFromLSB: set bit posFromLSB (0 = least significant) of a big-endian
\* 128-bit buffer; out of range positions are ignored.
setBitFromLSB(dst, posFromLSB) ==
    IF posFromLSB < 0 \/ posFromLSB >= 128 THEN dst
    ELSE LET posFromMSB == 127 - posFromLSB
             byteIdx    == posFromMSB \div 8
             bitInByte  == 7 - (posFromMSB % 8)
         IN  [dst EXCEPT ![byteIdx + 1] = ByteOr(dst[byteIdx + 1], 2 ^ bitInByte)]

RECURSIVE orShiftedIndex(_, _, _, _)
\* orShiftedIndex: for b in 0..bits-1, if bit b of index is set, set bit
\* shiftFromLSB + b of dst.
orShiftedIndex(dst, index, shiftFromLSB, bits) ==
    IF bits <= 0 THEN dst
    ELSE LET d == orShiftedIndex(dst, index, shiftFromLSB, bits - 1)
             b == bits - 1
         IN  IF (index \div (2 ^ b)) % 2 = 1
             THEN setBitFromLSB(d, shiftFromLSB + b)
             ELSE d

\* childPrefixAddr: the address of the index-th child.
childPrefixAddr(base, parentBits, step, index) ==
    LET newBits == parentBits + step IN
    IF Is4(base)
    THEN LET v     == BytesToBits(base)
             shift == 32 - newBits
         IN  BitsToBytes(AddBits(v, ShlBits(NatToBits(index, 32), shift)))
    ELSE LET shift == 128 - newBits
         IN  orShiftedIndex(base, index, shift, step)

\* SplitPrefix(p, step): the returned slice and whether the error is non-nil.
\* step is a Go int.  The loop runs parts times when parts > 0 and not at all
\* otherwise.
SplitPrefix(p0, step) ==
    LET p == Masked(p0) IN
    IF IntLe0(step) THEN [out |-> <<>>, err |-> TRUE]
    ELSE LET newBits == IntAdd(IntOf(p.bits), step)
             maxBits == IF Is4(p.addr) THEN 32 ELSE 128
         IN  IF IntGt(newBits, IntOf(maxBits)) THEN [out |-> <<>>, err |-> TRUE]
             ELSE LET parts == IntShl1(step)
                      count == IF IntLe0(parts) THEN 0 ELSE IntVal(parts)
                  IN  [out |-> Tup([i \in 1..count |->
                                      Masked([addr |-> childPrefixAddr(p.addr, p.bits,
                                                            IntVal(step), i - 1),
                                              bits |-> IntVal(newBits)])],
                                   count),
                       err |-> FALSE]

\* ---- RandomAddr
\* randomAddr4: base | uint32(r.Uint64() & ((1 << hostBits) - 1)); u is the
\* value r.Uint64() returns.
randomAddr4(p, u) ==
    LET base     == BytesToBits(p.addr)
        hostBits == 32 - p.bits
        mask     == AddBits(ShlBits(NatToBits(1, 64), hostBits), Ones(64))
        host     == IF hostBits = 0 THEN Zeros(32)
                    ELSE SubSeq(AndBits(u, mask), 33, 64)
    IN  BitsToBytes(OrBits(base, host))

\* A keepHostBits that forgets the partly covered byte.
keepHostBitsWhole(b, hostBits) ==
    LET topBits == 128 - hostBits IN
    IF topBits <= 0 THEN b
    ELSE Tup([i \in 1..16 |-> IF i - 1 < topBits \div 8 THEN 0 ELSE b[i]], 16)

\* keepHostBits: zero the top 128 - hostBits bits of b.
keepHostBits(b, hostBits) ==
    LET topBits == 128 - hostBits IN
    IF topBits <= 0 THEN b
    ELSE LET fullBytes == topBits \div 8
             remBits   == topBits % 8
             z == Tup([i \in 1..16 |-> IF i - 1 < fullBytes THEN 0 ELSE b[i]], 16)
         IN  IF remBits > 0 /\ fullBytes < 16
             THEN [z EXCEPT ![fullBytes + 1] =
                        ByteAnd(z[fullBytes + 1], 255 \div (2 ^ remBits))]
             ELSE z

\* applyHostBits: base[i] |= host[i]
applyHostBits(base, host) == Tup([i \in 1..16 |-> ByteOr(base[i], host[i])], 16)

\* randomAddr6: rand128 is what crypto/rand filled in, or, when that failed,
\* the sixteen r.Intn(256).
randomAddr6(p, rand128) ==
    LET hostBits == 128 - p.bits IN
    IF hostBits <= 0 THEN p.addr
    ELSE applyHostBits(p.addr, keepHostBits(rand128, hostBits))

\* RandomAddr(p, r): rnd is what the random sources deliver to this call.
RandomAddr(p0, rnd) ==
    LET p == Masked(p0) IN
    IF Is4(p.addr) THEN randomAddr4(p, BytesToBits(rnd.u64))
    ELSE randomAddr6(p, IF rnd.cryptoFails THEN rnd.intn ELSE rnd.crypto)

\* ---- inputs
\* 0.0.0.0, 1.1.0.0, 10.0.0.0, 192.168.1.77, 255.255.255.255
Addrs4 == {<<0, 0, 0, 0>>, <<1, 1, 0, 0>>, <<10, 0, 0, 0>>, <<192, 168, 1, 77>>,
           <<255, 255, 255, 255>>}
\* ::, 2606:4700::, 2001:db8:85a3::8a2e:370:7334, ffff:...:ffff
Addrs6 == {[i \in 1..16 |-> 0],
           <<38, 6, 71, 0, 0, 0, 0, 0, 0, 0, 0, 0, 0, 0, 0, 0>>,
           <<32, 1, 13, 184, 133, 163, 0, 0, 0, 0, 138, 46, 3, 112, 115, 52>>,
           [i \in 1..16 |-> 255]}
\* Every bit length of both families; the address need not be masked.
Prefixes ==
    [addr : Addrs4, bits : 0..32] \cup [addr : Addrs6, bits : 0..128]

\* Steps: every small one, the ones around the family widths and the width
\* of int, and the largest int.
Steps ==
    {IntOf(k) : k \in (-1)..MaxStep}
        \cup {IntOf(k) : k \in {32, 33, IntBits - 1, IntBits, 127, 128, 129}}
        \cup {MaxInt}

\* A split the model can carry out: it fails, or yields few children, or the
\* loop bound is not positive.
Splittable(p, step) ==
    \/ IntLe0(step)
    \/ ~IntSmall(step)
    \/ IntVal(step) <= MaxStep
    \/ IntVal(step) >= IntBits - 1
    \/ p.bits + IntVal(step) > FamilyBits(p.addr)

RandBytes(k) ==
    {[i \in 1..k |-> 0], [i \in 1..k |-> 255], [i \in 1..k |-> 170],
     [i \in 1..k |-> 85], [i \in 1..k |-> (37 * i + 11) % 256]}
\* What the random sources may deliver to one call on p: r.Uint64() on the v4
\* path; on the v6 path crypto/rand's sixteen bytes, or its failure and then
\* the sixteen r.Intn(256).
RndsFor(p) ==
    IF Is4(p.addr)
    THEN [u64 : RandBytes(8), crypto : {Zeros(16)}, intn : {Zeros(16)},
          cryptoFails : {FALSE}]
    ELSE [u64 : {Zeros(8)}, crypto : RandBytes(16), intn : {Zeros(16)},
          cryptoFails : {FALSE}]
           \cup [u64 : {Zeros(8)}, crypto : {Zeros(16)}, intn : RandBytes(16),
                 cryptoFails : {TRUE}]

InitCidr ==
    /\ cOp = "none" /\ cP = <<>> /\ cStep = <<>> /\ cOut = <<>>
    /\ cErr = FALSE /\ cAddr = <<>>
    /\ TopIdle /\ ProbeIdle /\ MainIdle

\* A call SplitPrefix(p, step) and its results.
Split(p, step) ==
    /\ cOp = "none"
    /\ Splittable(p, step)
    /\ LET r == SplitPrefix(p, step)
       IN  /\ cOut' = r.out
           /\ cErr' = r.err
    /\ cOp' = "split" /\ cP' = p /\ cStep' = step
    /\ cAddr' = <<>>
    /\ UNCHANGED <<topVars, probeVars, mainVars>>

\* A call RandomAddr(p, r) and its result.
Random(p, rnd) ==
    /\ cOp = "none"
    /\ cAddr' = RandomAddr(p, rnd)
    /\ cOp' = "random" /\ cP' = p
    /\ cStep' = <<>> /\ cOut' = <<>> /\ cErr' = FALSE
    /\ UNCHANGED <<topVars, probeVars, mainVars>>

\* The caller is done with the results; the next call can be made.
Forget ==
    /\ cOp # "none"
    /\ cOp' = "none" /\ cP' = <<>> /\ cStep' = <<>> /\ cOut' = <<>>
    /\ cErr' = FALSE /\ cAddr' = <<>>
    /\ UNCHANGED <<topVars, probeVars, mainVars>>

NextCidr ==
    \/ \E p \in Prefixes, step \in Steps : Split(p, step)
    \/ \E p \in Prefixes : \E rnd \in RndsFor(p) : Random(p, rnd)
    \/ Forget

SpecCidr == InitCidr /\ [][NextCidr]_vars

(***************************************************************************)
(* Claims about the prefix algebra                                         *)
(***************************************************************************)
RECURSIVE IsPow2Of(_, _)
\* x = 2^s, without computing 2^s
IsPow2Of(x, s) ==
    IF s = 0 THEN x = 1
    ELSE x > 0 /\ x % 2 = 0 /\ IsPow2Of(x \div 2, s - 1)

\* The children out split p by s bits: 2^s of them, each of p.bits + s bits,
\* the i-th (from 0) with p's network bits, then i in s bits, then zeros; so
\* their ranges are disjoint, ascending and fill p's range.
Tiles(p, s, out) ==
    LET W  == FamilyBits(p.addr)
        pb == BytesToBits(Masked(p).addr)
    IN  /\ IsPow2Of(Len(out), s)
        /\ \A i \in 1..Len(out) :
              /\ out[i].bits = p.bits + s
              /\ Len(out[i].addr) = Len(p.addr)
              /\ BytesToBits(out[i].addr)
                   = SubSeq(pb, 1, p.bits) \o NatToBits(i - 1, s)
                        \o Zeros(W - p.bits - s)

\* The step of the last SplitPrefix call is in range for its prefix:
\* 1 <= step and p.bits + step <= family_max_bits.
StepInRange ==
    /\ ~IntLe0(cStep) /\ IntSmall(cStep)
    /\ cP.bits + IntVal(cStep) <= FamilyBits(cP.addr)

\* C2: for every prefix p and step s >= 1 with p.bits + s <= family_max_bits,
\* SplitPrefix(p, s) returns no error and exactly 2^s children of p.bits + s
\* bits whose ranges, in order, are disjoint, ascending and fill p's range.
C2_SplitTilesPrefix ==
    (cOp = "split" /\ StepInRange) =>
        /\ ~cErr
        /\ Tiles(cP, IntVal(cStep), cOut)

\* C9: SplitPrefix returns an error and no children whenever step <= 0 or
\* p.bits + step > family_max_bits, for every prefix and every int step.
C9_SplitRejectsBadStep ==
    (cOp = "split" /\ ~StepInRange) => (cErr /\ cOut = <<>>)

\* C3: RandomAddr(p, rng) is an address of p's family whose top p.bits bits
\* are p's, whatever the random sources deliver; with no host bits it is p's
\* own address.
C3_RandomAddrInPrefix ==
    cOp = "random" =>
        LET a  == BytesToBits(cAddr)
            pb == BytesToBits(cP.addr)
        IN  /\ Len(cAddr) = Len(cP.addr)
            /\ \A i \in 1..cP.bits : a[i] = pb[i]
            /\ cP.bits = FamilyBits(cP.addr) => cAddr = cP.addr

\* A v6 draw into a prefix that ends inside a byte where it has a zero
\* network bit, with a host bit of that byte set by the random source.
C3_Witness ==
    /\ cOp = "random" /\ ~Is4(cP.addr) /\ cP.bits % 8 # 0
    /\ LET a  == BytesToBits(cAddr)
           pb == BytesToBits(cP.addr)
           lo == 8 * (cP.bits \div 8) + 1
       IN  /\ \E i \in lo..cP.bits : pb[i] = 0
           /\ \E i \in (cP.bits + 1)..(lo + 7) : a[i] = 1 /\ pb[i] = 0

(***************************************************************************)
(* Probe client (internal/probe)                                           *)
(*                                                                         *)
(* Strings the code takes apart (the response body) are sequences of       *)
(* one-character strings; the network's answer is the environment's        *)
(* choice.                                                                 *)
(***************************************************************************)
MaxBodyLines == 2   \* lines of a response body

ProbeIPs == {"1.1.1.1", "2606:4700::1"}
Statuses == {101, 199, 200, 204, 299, 300, 404, 503}
\* err.Error() of a failed http.NewRequestWithContext or client.Do
ErrMsgs  == {"connection refused", "context canceled"}
Millis   == {0, 7}

RECURSIVE TrimLeft(_)
TrimLeft(l) == IF l # <<>> /\ l[1] = " " THEN TrimLeft(Tail(l)) ELSE l
RECURSIVE TrimRight(_)
TrimRight(l) ==
    IF l # <<>> /\ l[Len(l)] = " " THEN TrimRight(SubSeq(l, 1, Len(l) - 1)) ELSE l
\* strings.TrimSpace
TrimSpace(l) == TrimRight(TrimLeft(l))

\* strings.Cut(line, "="): before, after, found
Cut(l) ==
    IF \E i \in 1..Len(l) : l[i] = "="
    THEN LET i == CHOOSE i \in 1..Len(l) :
                    l[i] = "=" /\ \A j \in 1..(i - 1) : l[j] # "="
         IN  [k |-> SubSeq(l, 1, i - 1), v |-> SubSeq(l, i + 1, Len(l)), ok |-> TRUE]
    ELSE [k |-> l, v |-> <<>>, ok |-> FALSE]

RECURSIVE parseTrace(_)
\* parseTrace over the body's lines (strings.Split(s, "\n")): the map as a
\* set of <<key, value>> pairs, a later line replacing an earlier key.
parseTrace(lines) ==
    IF lines = <<>> THEN {}
    ELSE LET m    == parseTrace(SubSeq(lines, 1, Len(lines) - 1))
             line == TrimSpace(lines[Len(lines)])
             c    == Cut(line)
             k    == TrimSpace(c.k)
             v    == TrimSpace(c.v)
         IN  IF line = <<>> THEN m
             ELSE IF ~c.ok THEN m
             ELSE IF k # <<>> THEN {e \in m : e[1] # k} \cup {<<k, v>>}
             ELSE m

\* A status test that lets 300 through.
StatusOKLe(code) == code >= 200 /\ code <= 300

\* httpRes.StatusCode >= 200 && httpRes.StatusCode < 300
StatusOK(code) == code >= 200 /\ code < 300

NilTrace    == [nil |-> TRUE, kv |-> {}]
ZeroResult(ip) ==
    [ip |-> ip, ok |-> FALSE, status |-> 0, error |-> "", connectMS |-> 0,
     tlsMS |-> 0, ttfbMS |-> 0, totalMS |-> 0, trace |-> NilTrace, when |-> 1]

\* The Result of one ProbeHTTPTrace(ctx, ip) call, given what the network did
\* (env).
ProbeResult(ip, env) ==
    LET r0 == ZeroResult(ip) IN
    IF env.kind = "build_err"
    THEN [r0 EXCEPT !.error = env.msg, !.totalMS = env.total]
    ELSE IF env.kind = "do_err"
    THEN [r0 EXCEPT !.error = IF env.deadline THEN "timeout" ELSE env.msg,
                    !.totalMS = env.total,
                    !.connectMS = env.connect,
                    !.tlsMS = env.tls,
                    !.ttfbMS = IF env.firstByte THEN env.ttfb ELSE 0]
    ELSE LET r1 == [r0 EXCEPT !.status = env.status,
                              !.connectMS = env.connect,
                              !.tlsMS = env.tls,
                              !.ttfbMS = IF env.firstByte THEN env.ttfb ELSE 0,
                              !.totalMS = env.total]
         IN  IF StatusOK(env.status)
             THEN [r1 EXCEPT !.ok = TRUE,
                             !.trace = [nil |-> FALSE, kv |-> parseTrace(env.body)]]
             ELSE [r1 EXCEPT !.ok = FALSE,
                             !.error = "http_status_" \o ToString(env.status)]

\* ---- inputs
BodyLines ==
    {<<"a", "=", "1">>, <<" ", "a", " ", "=", " ", "2", " ">>, <<"a">>,
     <<"=", "1">>, <<" ">>, <<"b", "=", "1", "#", "x">>}
RECURSIVE SeqsUpTo(_, _)
SeqsUpTo(S, k) ==
    IF k = 0 THEN {<<>>}
    ELSE LET shorter == SeqsUpTo(S, k - 1)
         IN  shorter \cup {Append(q, x) : q \in shorter, x \in S}
Bodies == SeqsUpTo(BodyLines, MaxBodyLines)

Envs ==
    [kind : {"build_err"}, msg : ErrMsgs, deadline : {FALSE}, status : {0},
     body : {<<>>}, connect : {0}, tls : {0}, firstByte : {FALSE}, ttfb : {0},
     total : Millis]
      \cup [kind : {"do_err"}, msg : ErrMsgs, deadline : BOOLEAN, status : {0},
            body : {<<>>}, connect : Millis, tls : Millis, firstByte : BOOLEAN,
            ttfb : {7}, total : {7}]
      \cup [kind : {"response"}, msg : {""}, deadline : {FALSE}, status : Statuses,
            body : Bodies, connect : Millis, tls : {7}, firstByte : BOOLEAN,
            ttfb : {7}, total : {7}]

InitProbe ==
    /\ res = <<>> /\ probed = "no"
    /\ TopIdle /\ CidrIdle /\ MainIdle

\* One call p.ProbeHTTPTrace(ctx, ip), from entry to return.
ProbeHTTPTrace(ip, env) ==
    /\ probed = "no"
    /\ res' = ProbeResult(ip, env)
    /\ probed' = IF env.kind = "do_err" /\ env.deadline THEN "timeout" ELSE env.kind
    /\ UNCHANGED <<topVars, cidrVars, mainVars>>

\* The caller has taken the Result; the prober is reusable.
ProbeTaken ==
    /\ probed # "no"
    /\ res' = <<>> /\ probed' = "no"
    /\ UNCHANGED <<topVars, cidrVars, mainVars>>

NextProbe ==
    \/ \E ip \in ProbeIPs, env \in Envs : ProbeHTTPTrace(ip, env)
    \/ ProbeTaken

SpecProbe == InitProbe /\ [][NextProbe]_vars

\* C6: every return of ProbeHTTPTrace is a populated Result with ok iff the
\* status is in [200,300) and a trace only with ok; a non-2xx response has
\* ok false and error "http_status_<code>"; a request-build or transport
\* error has ok false, status 0 and a non-empty error, "timeout" for a
\* context deadline.
C6_ProbeOutcomeShape ==
    probed # "no" =>
        /\ res.ip \in ProbeIPs /\ res.when # 0
        /\ res.ok <=> (res.status >= 200 /\ res.status < 300)
        /\ ~res.trace.nil => res.ok
        /\ (probed = "response" /\ ~(res.status >= 200 /\ res.status < 300)) =>
               /\ ~res.ok
               /\ res.error = "http_status_" \o ToString(res.status)
        /\ probed \in {"build_err", "do_err", "timeout"} =>
               /\ ~res.ok /\ res.status = 0 /\ res.error # ""
        /\ probed = "timeout" => res.error = "timeout"

\* A 2xx response whose body gave the trace two keys.
C6_Witness ==
    /\ probed = "response" /\ res.ok /\ res.status = 299
    /\ Cardinality(res.trace.kv) = 2

(***************************************************************************)
(* main (cmd/mcis)                                                         *)
(***************************************************************************)
MaxBudget == 3      \* probes a run dispatches
MaxTop    == 2      \* rows in res.Top

Formats  == {"jsonl", "csv", "text", "debug"}
OutFmts  == Formats \cup {"xml"}
OutPaths == {"", "out.txt"}

\* What search.Run can return: an error (nothing to write), or a result with
\* some rows after dispatching at least one probe.
RunOutcomes ==
    {[err |-> TRUE, probes |-> d, rows |-> 0] : d \in 0..MaxBudget}
        \cup {[err |-> FALSE, probes |-> d, rows |-> k] :
                d \in 1..MaxBudget, k \in 0..MaxTop}

InitMain ==
    /\ mpc = "start"
    /\ outFmt \in OutFmts /\ outPath \in OutPaths
    /\ runRes = <<>> /\ dispatched = 0 /\ fileMade = FALSE /\ written = 0
    /\ writeErr = FALSE /\ stderrMsg = FALSE /\ exitCode = NoExit
    /\ TopIdle /\ CidrIdle /\ ProbeIdle

\* fmt.Fprintln(os.Stderr, "error:", ...); os.Exit(1)
Fatal ==
    /\ stderrMsg' = TRUE /\ exitCode' = 1 /\ mpc' = "done"

\* res, err := search.Run(ctx, cfg, req), and the error exit
MainRun(o) ==
    /\ mpc = "start"
    /\ runRes' = o /\ dispatched' = o.probes
    /\ IF o.err THEN Fatal
       ELSE mpc' = "ran" /\ UNCHANGED <<stderrMsg, exitCode>>
    /\ UNCHANGED <<outFmt, outPath, fileMade, written, writeErr>>
    /\ UNCHANGED <<topVars, cidrVars, probeVars>>

\* w = os.Stdout, or os.Create(outPath) and its error exit
MainOpen(createFails) ==
    /\ mpc = "ran"
    /\ IF outPath = ""
       THEN mpc' = "opened" /\ UNCHANGED <<fileMade, stderrMsg, exitCode>>
       ELSE IF createFails
            THEN Fatal /\ UNCHANGED fileMade
            ELSE fileMade' = TRUE /\ mpc' = "opened"
                 /\ UNCHANGED <<stderrMsg, exitCode>>
    /\ UNCHANGED <<outFmt, outPath, runRes, dispatched, written, writeErr>>
    /\ UNCHANGED <<topVars, cidrVars, probeVars>>

\* The cases "jsonl", "csv" and "text": the writer returns the first write
\* error, after failAt rows went out (failAt = -1: every write succeeded),
\* and main exits 1 on it.
MainWriteRows(failAt) ==
    /\ mpc = "opened" /\ outFmt \in {"jsonl", "csv", "text"}
    /\ failAt <= runRes.rows
    /\ IF failAt >= 0
       THEN written' = failAt /\ writeErr' = TRUE /\ Fatal
       ELSE /\ written' = runRes.rows /\ writeErr' = FALSE
            /\ exitCode' = 0 /\ mpc' = "done" /\ UNCHANGED stderrMsg
    /\ UNCHANGED <<outFmt, outPath, runRes, dispatched, fileMade>>
    /\ UNCHANGED <<topVars, cidrVars, probeVars>>

\* The case "debug": _ = enc.Encode(res), then main returns.
MainWriteDebug(fails) ==
    /\ mpc = "opened" /\ outFmt = "debug"
    /\ written' = IF fails THEN 0 ELSE runRes.rows
    /\ writeErr' = fails
    /\ exitCode' = 0 /\ mpc' = "done"
    /\ UNCHANGED <<outFmt, outPath, runRes, dispatched, fileMade, stderrMsg>>
    /\ UNCHANGED <<topVars, cidrVars, probeVars>>

\* The default case: "error: unknown -out:", os.Exit(1)
MainUnknownFormat ==
    /\ mpc = "opened" /\ outFmt \notin Formats
    /\ Fatal
    /\ UNCHANGED <<outFmt, outPath, runRes, dispatched, fileMade, written, writeErr>>
    /\ UNCHANGED <<topVars, cidrVars, probeVars>>

NextMain ==
    \/ \E o \in RunOutcomes : MainRun(o)
    \/ \E createFails \in BOOLEAN : MainOpen(createFails)
    \/ \E failAt \in (-1)..MaxTop : MainWriteRows(failAt)
    \/ \E fails \in BOOLEAN : MainWriteDebug(fails)
    \/ MainUnknownFormat

SpecMain == InitMain /\ [][NextMain]_vars

\* C7: with an -out value that is none of jsonl, csv, text, debug, no probe
\* is ever dispatched and the output file is never created: the process
\* reports the error and exits 1 first.
C7_UnknownFormatFatalOnStartup ==
    outFmt \notin Formats =>
        /\ dispatched = 0 /\ ~fileMade
        /\ mpc = "done" => (exitCode = 1 /\ stderrMsg)

\* C8: in every output format, a run whose write to the output failed does
\* not exit 0: it exits 1.
C8_WriteErrorIsFatal ==
    (mpc = "done" /\ writeErr) => exitCode = 1

====
